---------------------------- MODULE Spec2Model ----------------------------
(***************************************************************************)
(* Catflake (src/src/index.js, the class exported at the end of the file): *)
(* a snowflake factory.  The model covers the constructor, the sequential  *)
(* generate(), the concurrent generate() with its hand-rolled promise      *)
(* lock and forced delay, and deconstruct().                               *)
(*                                                                         *)
(* Time is the reading of Date.now(), counted in milliseconds from a model *)
(* origin; readings start at 1, so `date || Date.now()` never sees a zero  *)
(* reading of the clock.  JavaScript numbers that may be NaN are records   *)
(* [isNaN, val]; big-integer values are TLA+ integers.                     *)
(***************************************************************************)
EXTENDS Integers, Sequences, FiniteSets, TLC

VARIABLES
    phase,         \* "new" (no instance yet), "ready" (constructed), "failed" (constructor threw)
    args,          \* the options object handed to the constructor
    options,       \* this.options
    maxIncrement,  \* this.maxIncrement
    workerId,      \* this.workerId  (pre-shifted big integer)
    processId,     \* this.processId (pre-shifted big integer)
    mutable,       \* this.mutable: increment, lastTimestamp, locks, locked
    clock,         \* what Date.now() returns
    pc,            \* position of every generate() call
    emitted,       \* the snowflakes returned so far, in the order they were packed
    thrown,        \* the errors raised so far, each with the operation that raised it
    deconstructed, \* argument and result of the latest deconstruct() call
    setBack,       \* whether the wall clock was ever set back
    added,         \* the properties added to the instance or to its options after construction
    attempt        \* the latest assignment a client tried on the instance, its options or this.mutable

vars == <<phase, args, options, maxIncrement, workerId, processId, mutable,
          clock, pc, emitted, thrown, deconstructed, setBack, added, attempt>>

-----------------------------------------------------------------------------
(* Bounds of the model *)

MaxCalls == 5      \* generate() calls per behaviour
MaxClock == 3      \* last reading of Date.now()

(* Program constant: the 22 low-order bits shared by the three sub-fields *)
TotalBits == 22

Calls == 1..MaxCalls

-----------------------------------------------------------------------------
(* JavaScript numbers and big-integer arithmetic *)

Num(v) == [isNaN |-> FALSE, val |-> v]
NaN == [isNaN |-> TRUE, val |-> 0]

Abs(a) == IF a < 0 THEN -a ELSE a

\* a % b on JavaScript numbers: the result takes the sign of the dividend,
\* and is NaN when an operand is NaN or the divisor is 0
JsRemainder(a, b) ==
    IF a.isNaN \/ b = 0 THEN NaN
    ELSE IF a.val < 0 THEN Num(-(Abs(a.val) % Abs(b)))
    ELSE Num(a.val % Abs(b))

\* a changed getBits that forgets to subtract 1
getBitsPower(bits) == 2 ^ bits

\* getBits(bits): the largest value of that many bits
getBits(bits) == (2 ^ bits) - 1

\* big-integer shiftLeft / shiftRight (shiftRight rounds towards minus infinity)
shiftLeft(a, n) == a * (2 ^ n)
shiftRight(a, n) == a \div (2 ^ n)

\* big-integer and(): two's-complement AND with a non-negative mask
RECURSIVE and(_, _)
and(a, mask) ==
    IF mask = 0 THEN 0
    ELSE ((a % 2) * (mask % 2)) + 2 * and(a \div 2, mask \div 2)

\* big-integer mod(): the remainder takes the sign of the dividend
mod(a, m) == IF a < 0 THEN -(Abs(a) % m) ELSE a % m

DigitChars == <<"0", "1", "2", "3", "4", "5", "6", "7", "8", "9">>

RECURSIVE Digits(_)
Digits(n) ==
    IF n < 10 THEN <<DigitChars[n + 1]>>
    ELSE Append(Digits(n \div 10), DigitChars[(n % 10) + 1])

\* big-integer toString(): base 10, "-" before a negative value, no leading zeros
toString(n) == IF n < 0 THEN <<"-">> \o Digits(-n) ELSE Digits(n)

DigitValue(c) == CHOOSE d \in 0..9 : DigitChars[d + 1] = c

RECURSIVE ParseDigits(_)
ParseDigits(s) ==
    IF Len(s) = 0 THEN 0
    ELSE 10 * ParseDigits(SubSeq(s, 1, Len(s) - 1)) + DigitValue(s[Len(s)])

\* BigInt(text): parse a decimal string
parseString(s) ==
    IF Len(s) > 0 /\ s[1] = "-" THEN -ParseDigits(Tail(s)) ELSE ParseDigits(s)


-----------------------------------------------------------------------------
(* Values returned by generate() and accepted by deconstruct() *)

StringValue(chars) == [kind |-> "string", text |-> chars, value |-> 0]
BigIntValue(n) == [kind |-> "bigint", text |-> <<>>, value |-> n]

\* BigInt(snowflake): one big integer from decimal text or from an integer
BigInt(snowflake) ==
    IF snowflake.kind = "string" THEN parseString(snowflake.text) ELSE snowflake.value

-----------------------------------------------------------------------------
(* The constructor *)

\* the options a caller may hand to the constructor (defaults already merged in)
BitWidths ==
    { <<0, 11, 11>>, <<1, 10, 11>>, <<2, 10, 10>>, <<12, 5, 5>>,    \* sum 22
      <<12, 5, 4>>, <<12, 12, 12>> }                                \* sum 21, sum 36

SuppliedIds == { <<Num(9), Num(4)>>, <<Num(1024), Num(2047)>>,
                 <<Num(-1), Num(3)>>, <<NaN, Num(-2049)>> }

\* the clock starts before the epoch and passes it
Epochs == {2}

OptionSets ==
    { [epoch |-> e, incrementBits |-> b[1], processBits |-> b[2], workerBits |-> b[3],
       processId |-> ids[1], workerId |-> ids[2], async |-> a, stringify |-> s] :
        e \in Epochs, b \in BitWidths, ids \in SuppliedIds, a \in BOOLEAN, s \in BOOLEAN }

\* a changed check that lets too few bits through
invalidBitWidthsAbove(opts) ==
    opts.incrementBits + opts.processBits + opts.workerBits > TotalBits

\* the check that makes the constructor throw
invalidBitWidths(opts) ==
    opts.incrementBits + opts.processBits + opts.workerBits # TotalBits

\* "ensure that ids conform to the number of bits", then "check if NaN"
normalizeId(id, bits) ==
    LET r == JsRemainder(id, 2 ^ bits)
    IN  IF r.isNaN THEN Num(0) ELSE r

NoInstance ==
    [epoch |-> 0, incrementBits |-> 0, processBits |-> 0, workerBits |-> 0,
     processId |-> Num(0), workerId |-> Num(0), async |-> FALSE, stringify |-> FALSE]

seedMutable == [increment |-> -1, lastTimestamp |-> clock, locks |-> <<>>, locked |-> FALSE]

Construct(opts) ==
    /\ phase = "new"
    /\ args' = opts
    /\ mutable' = seedMutable
    /\ IF invalidBitWidths(opts)
       THEN /\ options' = opts
            /\ thrown' = Append(thrown, "constructor")
            /\ phase' = "failed"
            /\ UNCHANGED <<maxIncrement, workerId, processId>>
       ELSE LET pid == normalizeId(opts.processId, opts.processBits)
                wid == normalizeId(opts.workerId, opts.workerBits)
            IN  /\ options' = [opts EXCEPT !.processId = pid, !.workerId = wid]
                /\ maxIncrement' = 2 ^ opts.incrementBits
                /\ workerId' = shiftLeft(wid.val, opts.incrementBits + opts.processBits)
                /\ processId' = shiftLeft(pid.val, opts.incrementBits)
                /\ phase' = "ready"
                /\ UNCHANGED thrown
    /\ UNCHANGED <<clock, pc, emitted, deconstructed, setBack, added, attempt>>

-----------------------------------------------------------------------------
(* generate(), sequential mode *)

\* a changed getter that forgets the modulo
incrementNoWrap(stored) == stored + 1

\* a changed getter that steps by two
incrementByTwo(stored) == mod(stored + 2, maxIncrement)

\* a changed getter that wraps one bit later than the increment field is wide
incrementWrapsLate(stored) == mod(stored + 1, 2 * maxIncrement)

\* the increment getter: the value it stores and returns
increment(stored) == mod(stored + 1, maxIncrement)

\* a changed _generate that reserves one bit too few below the timestamp
packShortShift(date, inc) ==
    shiftLeft((IF date = 0 THEN clock ELSE date) - options.epoch, TotalBits - 1)
        + workerId + processId + inc

\* _generate(date, increment): the big integer it builds (date 0 stands for a
\* missing date)
pack(date, inc) ==
    shiftLeft((IF date = 0 THEN clock ELSE date) - options.epoch, TotalBits)
        + workerId + processId + inc

\* _generate: the value it returns
render(flake) == IF options.stringify THEN StringValue(toString(flake)) ELSE BigIntValue(flake)

Emission(c, date, inc, slept) ==
    [call |-> c, flake |-> render(pack(date, inc)),
     timestamp |-> IF date = 0 THEN clock ELSE date, increment |-> inc, slept |-> slept]

\* calls are numbered in the order they are invoked
Invocable(c) == pc[c] = "idle" /\ \A d \in Calls : d < c => pc[d] # "idle"

Generate(c) ==
    /\ phase = "ready"
    /\ ~options.async
    /\ Invocable(c)
    /\ LET inc == increment(mutable.increment)
       IN  /\ mutable' = [mutable EXCEPT !.increment = inc]
           /\ emitted' = Append(emitted, Emission(c, 0, inc, FALSE))
    /\ pc' = [pc EXCEPT ![c] = "done"]
    /\ UNCHANGED <<phase, args, options, maxIncrement, workerId, processId, clock,
                   thrown, deconstructed, setBack, added, attempt>>

-----------------------------------------------------------------------------
(* generate(), concurrent mode *)

\* a changed _unlock that marks the section free even when it hands it over
unlockAlwaysFree(m) ==
    IF Len(m.locks) > 0 THEN [m EXCEPT !.locks = Tail(m.locks), !.locked = FALSE]
    ELSE [m EXCEPT !.locked = FALSE]

\* a changed _unlock that never marks the section free
unlockKeepHeld(m) ==
    IF Len(m.locks) > 0 THEN [m EXCEPT !.locks = Tail(m.locks)]
    ELSE m

\* _unlock(): the lock state it leaves
unlock(m) ==
    IF Len(m.locks) > 0 THEN [m EXCEPT !.locks = Tail(m.locks)]
    ELSE [m EXCEPT !.locked = FALSE]

\* a changed _unlock that drops the waiter it removes without calling it
wokenNone(m) == {}

\* _unlock(): the caller whose promise it resolves, if any
woken(m) == IF Len(m.locks) > 0 THEN {Head(m.locks)} ELSE {}

\* the end of _generateAsync: pack, unlock, return
Finish(c, m, now, slept) ==
    /\ emitted' = Append(emitted, Emission(c, now, m.increment, slept))
    /\ mutable' = unlock(m)
    /\ pc' = [d \in Calls |->
                IF d = c THEN "done"
                ELSE IF d \in woken(m) THEN "resumed"
                ELSE pc[d]]

\* a changed _generateAsync without the check for an exhausted increment
CriticalNoDelay(c, m) ==
    LET now == clock
    IN  IF m.lastTimestamp # now
        THEN Finish(c, [m EXCEPT !.lastTimestamp = now, !.increment = 0], now, FALSE)
        ELSE Finish(c, [m EXCEPT !.increment = m.increment + 1], now, FALSE)

\* _generateAsync from the reading of the clock to the return or the sleep
Critical(c, m) ==
    LET now == clock
    IN  IF m.lastTimestamp # now
        THEN Finish(c, [m EXCEPT !.lastTimestamp = now, !.increment = 0], now, FALSE)
        ELSE LET m1 == [m EXCEPT !.increment = m.increment + 1]
             IN  IF m1.increment >= maxIncrement
                 THEN /\ mutable' = m1
                      /\ pc' = [pc EXCEPT ![c] = "sleeping"]
                      /\ UNCHANGED emitted
                 ELSE Finish(c, m1, now, FALSE)

\* a changed _lock that forgets to set the locked flag
GenerateAsyncNoLock(c) ==
    /\ phase = "ready"
    /\ options.async
    /\ Invocable(c)
    /\ IF mutable.locked
       THEN /\ mutable' = [mutable EXCEPT !.locks = Append(mutable.locks, c)]
            /\ pc' = [pc EXCEPT ![c] = "waiting"]
            /\ UNCHANGED emitted
       ELSE Critical(c, mutable)
    /\ UNCHANGED <<phase, args, options, maxIncrement, workerId, processId, clock,
                   thrown, deconstructed, setBack, added, attempt>>

\* a call of generate(): _lock(), and the rest of _generateAsync when the lock was free
GenerateAsync(c) ==
    /\ phase = "ready"
    /\ options.async
    /\ Invocable(c)
    /\ IF mutable.locked
       THEN /\ mutable' = [mutable EXCEPT !.locks = Append(mutable.locks, c)]
            /\ pc' = [pc EXCEPT ![c] = "waiting"]
            /\ UNCHANGED emitted
       ELSE Critical(c, [mutable EXCEPT !.locked = TRUE])
    /\ UNCHANGED <<phase, args, options, maxIncrement, workerId, processId, clock,
                   thrown, deconstructed, setBack, added, attempt>>

\* a caller whose lock promise was resolved continues after `await lock`
Resume(c) ==
    /\ pc[c] = "resumed"
    /\ Critical(c, mutable)
    /\ UNCHANGED <<phase, args, options, maxIncrement, workerId, processId, clock,
                   thrown, deconstructed, setBack, added, attempt>>

\* the timer of sleep(2) fires: the caller continues after `await sleep(2)`.
\* setTimeout counts its delay on the event loop's clock, not on Date.now(), and
\* the code does not compare the new reading with the stored one: the reading
\* it takes is whatever the wall clock shows by then.
Wake(c) ==
    /\ pc[c] = "sleeping"
    /\ Finish(c, [mutable EXCEPT !.lastTimestamp = clock, !.increment = 0], clock, TRUE)
    /\ UNCHANGED <<phase, args, options, maxIncrement, workerId, processId, clock,
                   thrown, deconstructed, setBack, added, attempt>>

-----------------------------------------------------------------------------
(* deconstruct() *)

deconstruct(snowflake) ==
    LET flake == BigInt(snowflake)
        wBitShift == options.incrementBits + options.processBits
    IN  [timestamp |-> shiftRight(flake, TotalBits) + options.epoch,
         workerId |-> shiftRight(and(flake, shiftLeft(getBits(options.workerBits), wBitShift)),
                                 wBitShift),
         processId |-> shiftRight(and(flake, shiftLeft(getBits(options.processBits),
                                                       options.incrementBits)),
                                  options.incrementBits),
         increment |-> and(flake, getBits(options.incrementBits))]

\* a changed deconstruct that reads the increment through the getter, which
\* stores what it returns
DeconstructThroughGetter(i) ==
    /\ phase = "ready"
    /\ i \in DOMAIN emitted
    /\ deconstructed' = <<[input |-> emitted[i].flake, output |-> deconstruct(emitted[i].flake)]>>
    /\ mutable' = [mutable EXCEPT !.increment = mod(mutable.increment + 1, maxIncrement)]
    /\ UNCHANGED <<phase, args, options, maxIncrement, workerId, processId,
                   clock, pc, emitted, thrown, setBack, added, attempt>>

\* deconstruct(generate()): a returned snowflake handed to deconstruct
Deconstruct(i) ==
    /\ phase = "ready"
    /\ i \in DOMAIN emitted
    /\ deconstructed' = <<[input |-> emitted[i].flake, output |-> deconstruct(emitted[i].flake)]>>
    /\ UNCHANGED <<phase, args, options, maxIncrement, workerId, processId, mutable,
                   clock, pc, emitted, thrown, setBack, added, attempt>>

\* deconstruct(snowflake) on any input, as decimal text or as an integer
DeconstructInput(n, asText) ==
    /\ phase = "ready"
    /\ LET snowflake == IF asText THEN StringValue(toString(n)) ELSE BigIntValue(n)
       IN  deconstructed' = <<[input |-> snowflake, output |-> deconstruct(snowflake)]>>
    /\ UNCHANGED <<phase, args, options, maxIncrement, workerId, processId, mutable,
                   clock, pc, emitted, thrown, setBack, added, attempt>>

-----------------------------------------------------------------------------
(* The wall clock *)

Tick ==
    /\ clock < MaxClock
    /\ clock' = clock + 1
    /\ UNCHANGED <<phase, args, options, maxIncrement, workerId, processId, mutable,
                   pc, emitted, thrown, deconstructed, setBack, added, attempt>>

\* the wall clock is set back (at most once in a behaviour)
SetBack ==
    /\ ~setBack
    /\ clock > 1
    /\ \E t \in 1..(clock - 1) : clock' = t
    /\ setBack' = TRUE
    /\ UNCHANGED <<phase, args, options, maxIncrement, workerId, processId, mutable,
                   pc, emitted, thrown, deconstructed, added, attempt>>

-----------------------------------------------------------------------------
(* Assignments a client tries on the instance after construction *)

\* a changed constructor that freezes the instance but not its options
frozenOnlyThis(obj) == obj = "this"

\* Object.freeze(this.options); Object.freeze(this): the frozen objects.
\* this.mutable is "an object containing mutable (unfrozen) properties".
frozen(obj) == obj \in {"options", "this"}

InstanceFields == {"options", "mutable", "maxIncrement", "workerId", "processId", "newprop"}

OptionFields == {"epoch", "incrementBits", "processBits", "workerBits", "processId",
                 "workerId", "async", "stringify", "newprop"}

\* catflake[field] = value: an assignment to a frozen object changes nothing (it
\* is ignored, or raises a TypeError in the client when the client is strict code)
AssignInstance(field) ==
    /\ phase = "ready"
    /\ attempt' = <<"this", field>>
    /\ IF frozen("this")
       THEN UNCHANGED <<options, mutable, maxIncrement, workerId, processId, added>>
       ELSE /\ options' = IF field = "options" THEN NoInstance ELSE options
            /\ mutable' = IF field = "mutable"
                             THEN [increment |-> -1, lastTimestamp |-> 0,
                                   locks |-> <<>>, locked |-> FALSE]
                             ELSE mutable
            /\ maxIncrement' = IF field = "maxIncrement" THEN maxIncrement + 1 ELSE maxIncrement
            /\ workerId' = IF field = "workerId" THEN workerId + 1 ELSE workerId
            /\ processId' = IF field = "processId" THEN processId + 1 ELSE processId
            /\ added' = IF field = "newprop" THEN added \cup {<<"this", field>>} ELSE added
    /\ UNCHANGED <<phase, args, clock, pc, emitted, thrown, deconstructed, setBack>>

\* catflake.options[field] = value
AssignOption(field) ==
    /\ phase = "ready"
    /\ attempt' = <<"options", field>>
    /\ IF frozen("options")
       THEN UNCHANGED <<options, added>>
       ELSE /\ options' =
                  [epoch |-> IF field = "epoch" THEN options.epoch + 1 ELSE options.epoch,
                   incrementBits |-> IF field = "incrementBits" THEN options.incrementBits + 1
                                     ELSE options.incrementBits,
                   processBits |-> IF field = "processBits" THEN options.processBits + 1
                                   ELSE options.processBits,
                   workerBits |-> IF field = "workerBits" THEN options.workerBits + 1
                                  ELSE options.workerBits,
                   processId |-> IF field = "processId" THEN Num(options.processId.val + 1)
                                 ELSE options.processId,
                   workerId |-> IF field = "workerId" THEN Num(options.workerId.val + 1)
                                ELSE options.workerId,
                   async |-> IF field = "async" THEN ~options.async ELSE options.async,
                   stringify |-> IF field = "stringify" THEN ~options.stringify
                                 ELSE options.stringify]
            /\ added' = IF field = "newprop" THEN added \cup {<<"options", field>>} ELSE added
    /\ UNCHANGED <<phase, args, maxIncrement, workerId, processId, mutable, clock, pc,
                   emitted, thrown, deconstructed, setBack>>

\* catflake.mutable.increment = BigInt(2 ** incrementBits - 1): this.mutable is
\* not frozen, the assignment takes effect
AssignMutableIncrement ==
    /\ phase = "ready"
    /\ attempt' = <<"mutable", "increment">>
    /\ IF frozen("mutable")
       THEN UNCHANGED mutable
       ELSE mutable' = [mutable EXCEPT !.increment = maxIncrement - 1]
    /\ UNCHANGED <<phase, args, options, maxIncrement, workerId, processId, clock, pc,
                   emitted, thrown, deconstructed, setBack, added>>

-----------------------------------------------------------------------------

Init ==
    /\ phase = "new"
    /\ args = NoInstance
    /\ options = NoInstance
    /\ maxIncrement = 0
    /\ workerId = 0
    /\ processId = 0
    /\ mutable = [increment |-> 0, lastTimestamp |-> 0, locks |-> <<>>, locked |-> FALSE]
    /\ clock = 1
    /\ pc = [c \in Calls |-> "idle"]
    /\ emitted = <<>>
    /\ thrown = <<>>
    /\ deconstructed = <<>>
    /\ setBack = FALSE
    /\ added = {}
    /\ attempt = <<>>

Next ==
    \/ \E opts \in OptionSets : Construct(opts)
    \/ \E c \in Calls : Generate(c)
    \/ \E c \in Calls : GenerateAsync(c)
    \/ \E c \in Calls : Resume(c)
    \/ \E c \in Calls : Wake(c)
    \/ Tick
    \/ SetBack

Spec == Init /\ [][Next]_vars

-----------------------------------------------------------------------------
(* The field codec on its own: _generate and deconstruct applied to chosen   *)
(* fields under one configuration whose ids are within their bit widths      *)

CodecEpochs == {0, 2}

MaxDate == 3       \* last date handed to _generate

CodecBitWidths == { <<0, 11, 11>>, <<2, 10, 10>>, <<12, 5, 5>>, <<20, 1, 1>>, <<1, 0, 21>> }

\* some values of a field of the given width, its smallest and largest included
FieldValues(bits) == { v \in {0, 1, 9, getBits(bits)} : v < 2 ^ bits }

CodecOptionSets ==
    UNION { { [epoch |-> e, incrementBits |-> b[1], processBits |-> b[2], workerBits |-> b[3],
               processId |-> Num(p), workerId |-> Num(w), async |-> FALSE, stringify |-> s] :
                e \in CodecEpochs, s \in BOOLEAN, p \in FieldValues(b[2]), w \in FieldValues(b[3]) } :
            b \in CodecBitWidths }

\* dates around the epoch, and one far after it
CodecDates == (1..MaxDate) \cup {500}

CodecConstruct(opts) == Construct(opts)

\* _generate(date, increment) with both arguments given
Pack(date, inc) ==
    /\ phase = "ready"
    /\ emitted' = <<Emission(0, date, inc, FALSE)>>
    /\ UNCHANGED <<phase, args, options, maxIncrement, workerId, processId, mutable,
                   clock, pc, thrown, deconstructed, setBack, added, attempt>>

CodecNext ==
    \/ \E opts \in CodecOptionSets : CodecConstruct(opts)
    \/ \E date \in CodecDates, inc \in FieldValues(options.incrementBits) : Pack(date, inc)
    \/ Deconstruct(1)

CodecSpec == Init /\ [][CodecNext]_vars

-----------------------------------------------------------------------------
(* deconstruct on inputs that need not come from generate() *)

\* 564394 is worker 4, process 9, increment 3242 under the widths 12/5/5, the
\* low 22 bits of the snowflake 397282797158964394
SnowflakeNumbers ==
    { 0, 1, 4095, 4096, 564394, (2 ^ 22) - 1, 2 ^ 22, (2 ^ 22) + 564394,
      (3 * (2 ^ 22)) + 564394, (500 * (2 ^ 22)) + 564394, 2147483647 }

DecodeConstruct(opts) == Construct(opts)

DecodeNext ==
    \/ \E opts \in CodecOptionSets : DecodeConstruct(opts)
    \/ \E n \in SnowflakeNumbers, asText \in BOOLEAN : DeconstructInput(n, asText)

DecodeSpec == Init /\ [][DecodeNext]_vars

-----------------------------------------------------------------------------
(* The instance in the hands of a client: generate(), deconstruct() and        *)
(* assignments to the instance, its options and this.mutable, in any order     *)

ClientBitWidths == { <<1, 10, 11>>, <<12, 5, 5>> }

ClientOptionSets ==
    { [epoch |-> 2, incrementBits |-> b[1], processBits |-> b[2], workerBits |-> b[3],
       processId |-> Num(9), workerId |-> Num(4), async |-> a, stringify |-> s] :
        b \in ClientBitWidths, a \in BOOLEAN, s \in BOOLEAN }

ClientConstruct(opts) == Construct(opts)

ClientNext ==
    \/ \E opts \in ClientOptionSets : ClientConstruct(opts)
    \/ \E c \in Calls : Generate(c)
    \/ \E c \in Calls : GenerateAsync(c)
    \/ \E c \in Calls : Resume(c)
    \/ \E c \in Calls : Wake(c)
    \/ \E i \in Calls : Deconstruct(i)
    \/ \E field \in InstanceFields : AssignInstance(field)
    \/ \E field \in OptionFields : AssignOption(field)
    \/ AssignMutableIncrement

ClientSpec == Init /\ [][ClientNext]_vars

-----------------------------------------------------------------------------
(* The concurrent mode under a fair scheduler: the continuation of a resolved *)
(* promise is run, and the timer of sleep(2) fires                            *)

LiveBitWidths == { <<0, 11, 11>>, <<1, 10, 11>>, <<2, 10, 10>> }

LiveOptionSets ==
    { [epoch |-> 2, incrementBits |-> b[1], processBits |-> b[2], workerBits |-> b[3],
       processId |-> Num(9), workerId |-> Num(4), async |-> TRUE, stringify |-> FALSE] :
        b \in LiveBitWidths }

LiveConstruct(opts) == Construct(opts)

LiveNext ==
    \/ \E opts \in LiveOptionSets : LiveConstruct(opts)
    \/ \E c \in Calls : GenerateAsync(c)
    \/ \E c \in Calls : Resume(c)
    \/ \E c \in Calls : Wake(c)
    \/ Tick
    \/ SetBack

LiveSpec ==
    /\ Init
    /\ [][LiveNext]_vars
    /\ \A c \in Calls : WF_vars(Resume(c))
    /\ \A c \in Calls : WF_vars(Wake(c))

-----------------------------------------------------------------------------
(* Properties *)

Concurrent == phase = "ready" /\ options.async

\* the stored ids fit their bit widths
IdsWithinWidths ==
    /\ options.processId.val \in 0..((2 ^ options.processBits) - 1)
    /\ options.workerId.val \in 0..((2 ^ options.workerBits) - 1)

\* the concurrent mode under a wall clock that never moved backwards, on an
\* instance whose ids fit their bit widths (so that the ids play no part)
ConcurrentMonotonicClock == Concurrent /\ ~setBack /\ IdsWithinWidths
Sequential == phase = "ready" /\ ~options.async

\* the largest increment the increment field can hold
LastIncrement == (2 ^ options.incrementBits) - 1

\* a mod m for any integer a, in 0..m-1
Modulo(a, m) == a % m

(* C1: in concurrent mode no two generate() calls of one instance return the
   same snowflake, for every interleaving of callers and every wall clock that
   never moves backwards. *)
AsyncNoDuplicates ==
    ConcurrentMonotonicClock =>
        \A i, j \in DOMAIN emitted : i # j => emitted[i].flake # emitted[j].flake

(* C2: in concurrent mode the snowflakes, taken in the order the calls are
   serviced, are strictly increasing as integers. *)
AsyncStrictlyIncreasing ==
    ConcurrentMonotonicClock =>
        \A i \in DOMAIN emitted :
            i > 1 => BigInt(emitted[i - 1].flake) < BigInt(emitted[i].flake)

(* C3: in concurrent mode, for consecutively serviced calls: a different
   timestamp comes with increment 0; the same timestamp comes with the
   previous increment plus 1, and the previous increment was not the
   maximum. *)
AsyncIncrementSequence ==
    ConcurrentMonotonicClock =>
        \A i \in DOMAIN emitted :
            i > 1 =>
                IF emitted[i].timestamp # emitted[i - 1].timestamp
                THEN emitted[i].increment = 0
                ELSE /\ emitted[i].increment = emitted[i - 1].increment + 1
                     /\ emitted[i - 1].increment # LastIncrement

(* C4: in concurrent mode the call that resets the increment after it was
   exhausted packs a timestamp strictly greater than the timestamp of the
   snowflake emitted before it. *)
RolloverHasFreshTimestamp ==
    ConcurrentMonotonicClock =>
        \A i \in DOMAIN emitted :
            (i > 1 /\ emitted[i].slept) =>
                emitted[i].timestamp > emitted[i - 1].timestamp

(* C5: in both modes deconstruct(generate()) recovers the workerId and the
   processId of the configuration. *)
RoundTripRecoversIds ==
    phase = "ready" =>
        \A i \in DOMAIN emitted :
            /\ deconstruct(emitted[i].flake).workerId = options.workerId.val
            /\ deconstruct(emitted[i].flake).processId = options.processId.val

(* C6: under one configuration, with workerId, processId and increment within
   their bit widths, deconstruct of a packed snowflake returns exactly the
   timestamp, workerId, processId and increment that were packed. *)
PackUnpackInverse ==
    (/\ phase = "ready"
     /\ deconstructed # <<>>
     /\ emitted # <<>>
     /\ deconstructed[1].input = emitted[1].flake)
        => deconstructed[1].output =
              [timestamp |-> emitted[1].timestamp,
               workerId |-> args.workerId.val,
               processId |-> args.processId.val,
               increment |-> emitted[1].increment]

PackUnpackWitness ==
    /\ phase = "ready"
    /\ deconstructed # <<>>
    /\ emitted # <<>>
    /\ deconstructed[1].input = emitted[1].flake
    /\ options.stringify
    /\ options.incrementBits = 12
    /\ emitted[1].increment = 4095
    /\ args.workerId.val = 31
    /\ args.processId.val = 9
    /\ emitted[1].timestamp < options.epoch

(* C7: the constructor throws exactly when the three bit widths do not add up
   to 22; after it threw no generate() call runs and no snowflake exists, and
   nothing but the constructor ever raises an error. *)
ConstructFailsIffBitsInvalid ==
    /\ phase # "new" =>
          ((phase = "failed") <=>
              (args.incrementBits + args.processBits + args.workerBits # 22))
    /\ phase = "failed" =>
          /\ thrown = <<"constructor">>
          /\ emitted = <<>>
          /\ \A c \in Calls : pc[c] = "idle"
    /\ phase = "ready" => thrown = <<>>

ConstructFailsWitness ==
    /\ phase = "failed"
    /\ args.incrementBits = 12 /\ args.processBits = 5 /\ args.workerBits = 4
    /\ thrown = <<"constructor">>

(* C8: after a successful construct the stored processId and workerId are the
   supplied ones reduced modulo 2^bits, within 0 .. 2^bits - 1 for every
   supplied integer, and 0 when the supplied value is not a number. *)
StoredIdsReducedModulo ==
    phase = "ready" =>
        /\ options.processId =
              (IF args.processId.isNaN THEN Num(0)
               ELSE Num(Modulo(args.processId.val, 2 ^ options.processBits)))
        /\ options.workerId =
              (IF args.workerId.isNaN THEN Num(0)
               ELSE Num(Modulo(args.workerId.val, 2 ^ options.workerBits)))
        /\ options.processId.val \in 0..((2 ^ options.processBits) - 1)
        /\ options.workerId.val \in 0..((2 ^ options.workerBits) - 1)

(* C9: in sequential mode any run of N consecutive generate() calls with
   N <= 2^incrementBits returns pairwise distinct snowflakes, whatever the
   clock reads at each call. *)
SequentialWindowDistinct ==
    Sequential =>
        \A i, j \in DOMAIN emitted :
            (i < j /\ j - i < 2 ^ options.incrementBits) =>
                emitted[i].flake # emitted[j].flake

SequentialWindowWitness ==
    /\ Sequential
    /\ options.incrementBits = 2
    /\ Len(emitted) >= 4
    /\ \A i \in 1..4 : emitted[i].timestamp = emitted[1].timestamp

(* C10: in sequential mode the k-th generate() call since construction packs
   the increment (k - 1) mod 2^incrementBits, whatever the timestamp. *)
SequentialIncrementIsCallCount ==
    Sequential =>
        \A k \in DOMAIN emitted :
            /\ emitted[k].increment = Modulo(k - 1, 2 ^ options.incrementBits)
            /\ Modulo(BigInt(emitted[k].flake), 2 ^ options.incrementBits)
                  = Modulo(k - 1, 2 ^ options.incrementBits)

SequentialWrapWitness ==
    /\ Sequential
    /\ options.incrementBits = 2
    /\ Len(emitted) = 5
    /\ emitted[4].increment = 3
    /\ emitted[5].increment = 0
    /\ emitted[5].timestamp > emitted[4].timestamp

(* C11: after construction no assignment to a field of the instance or of its
   options, existing or new, has any effect, and no generate() or
   deconstruct() call changes the configuration (options, pre-shifted ids,
   maximum increment). *)
ConfigurationTamperProof ==
    [][phase = "ready" =>
          /\ options' = options
          /\ maxIncrement' = maxIncrement
          /\ workerId' = workerId
          /\ processId' = processId
          /\ added' = added
          /\ (attempt' # attempt /\ attempt'[1] \in {"this", "options"}) =>
                 mutable' = mutable]_vars

TamperAttemptWitness ==
    /\ phase = "ready"
    /\ attempt = <<"options", "newprop">>
    /\ emitted # <<>>
    /\ deconstructed # <<>>
    /\ added = {}

(* C12: deconstruct called again on the same input returns the same four
   fields, however many generate() calls ran in between, and a deconstruct
   call leaves the generator state (increment, last timestamp, lock flag,
   waiter queue) and every pending call as they were. *)
DeconstructPure ==
    [][deconstructed' # deconstructed =>
          /\ mutable' = mutable
          /\ pc' = pc
          /\ emitted' = emitted
          /\ (deconstructed # <<>> /\ deconstructed'[1].input = deconstructed[1].input) =>
                 deconstructed'[1].output = deconstructed[1].output]_vars

DeconstructPureWitness ==
    /\ phase = "ready"
    /\ Len(emitted) >= 3
    /\ deconstructed # <<>>
    /\ deconstructed[1].input = emitted[1].flake
    /\ \E c \in Calls : pc[c] = "sleeping"
    /\ \E c \in Calls : pc[c] = "waiting"

(* C13: for a non-negative snowflake s, deconstruct returns
   timestamp = floor(s / 2^22) + epoch,
   workerId = floor(s / 2^(incrementBits + processBits)) mod 2^workerBits,
   processId = floor(s / 2^incrementBits) mod 2^processBits and
   increment = s mod 2^incrementBits; with the widths 12/5/5 the low bits
   564394 decode to workerId 4, processId 9, increment 3242. *)
DeconstructFields ==
    (phase = "ready" /\ deconstructed # <<>>) =>
        \A s \in SnowflakeNumbers :
            deconstructed[1].input \in {BigIntValue(s), StringValue(toString(s))} =>
                /\ deconstructed[1].output =
                      [timestamp |-> (s \div 4194304) + options.epoch,
                       workerId |-> (s \div (2 ^ (options.incrementBits + options.processBits)))
                                        % (2 ^ options.workerBits),
                       processId |-> (s \div (2 ^ options.incrementBits))
                                        % (2 ^ options.processBits),
                       increment |-> s % (2 ^ options.incrementBits)]
                /\ (s = 13147306 /\ options.incrementBits = 12 /\ options.processBits = 5) =>
                      deconstructed[1].output =
                          [timestamp |-> 3 + options.epoch, workerId |-> 4,
                           processId |-> 9, increment |-> 3242]

DeconstructExampleWitness ==
    /\ phase = "ready"
    /\ options.incrementBits = 12 /\ options.processBits = 5 /\ options.workerBits = 5
    /\ deconstructed # <<>>
    /\ deconstructed[1].input =
          StringValue(<<"2", "0", "9", "7", "7", "1", "6", "3", "9", "4">>)
    /\ deconstructed[1].output.workerId = 4
    /\ deconstructed[1].output.processId = 9
    /\ deconstructed[1].output.increment = 3242
    /\ deconstructed[1].output.timestamp = 500 + options.epoch

\* the calls inside the critical section between two steps: the one suspended
\* in the forced delay, or the one the section was handed to
Holders == { c \in Calls : pc[c] \in {"sleeping", "resumed"} }

(* C14: in concurrent mode at most one generate() call is inside the critical
   section at any moment, the forced delay included, and while a call is
   inside no other call changes the stored increment or last timestamp or
   packs a snowflake. *)
MutualExclusion ==
    /\ [](Concurrent =>
            /\ Cardinality(Holders) <= 1
            /\ (Holders # {} => mutable.locked))
    /\ [][Concurrent =>
            \A c \in Holders :
                (\/ mutable'.increment # mutable.increment
                 \/ mutable'.lastTimestamp # mutable.lastTimestamp
                 \/ emitted' # emitted)
                    => /\ pc'[c] # pc[c]
                       /\ emitted' # emitted => emitted'[Len(emitted')].call = c]_vars

MutualExclusionWitness ==
    /\ Concurrent
    /\ \E c \in Calls : pc[c] = "sleeping"
    /\ Len(mutable.locks) >= 2
    /\ \A d \in Calls : pc[d] # "idle"

(* C15: in concurrent mode the calls pack their snowflakes in the order they
   were invoked; a call that arrives while the section is handed to a waiter
   that has not resumed yet does not overtake that waiter. *)
FifoOrder ==
    Concurrent =>
        /\ \A i, j \in DOMAIN emitted : i < j => emitted[i].call < emitted[j].call
        /\ \A i, j \in DOMAIN mutable.locks : i < j => mutable.locks[i] < mutable.locks[j]
        /\ \A c \in Holders : \A i \in DOMAIN mutable.locks : c < mutable.locks[i]

FifoWitness ==
    /\ Concurrent
    /\ Len(emitted) = 4
    /\ emitted[2].slept
    /\ emitted[4].slept
    /\ \E c \in Calls : pc[c] = "done" /\ emitted[4].call = c /\ c = 4

(* C16: the critical section is Free or Held. Acquire on Free holds it without
   queueing; acquire on Held appends the caller to the queue; release with an
   empty queue frees it; release with waiters removes exactly the head, wakes
   it and stays Held. A non-empty queue implies Held, and with no generate()
   call in progress the section is Free with an empty queue. *)
LockStateMachine ==
    /\ [](Concurrent =>
            /\ (Len(mutable.locks) > 0 => mutable.locked)
            /\ (mutable.locked <=> Holders # {})
            /\ ((\A c \in Calls : pc[c] \in {"idle", "done"}) =>
                    (~mutable.locked /\ mutable.locks = <<>>))
            /\ \A c \in Calls :
                    pc[c] = "waiting" <=> (\E i \in DOMAIN mutable.locks : mutable.locks[i] = c))
    /\ [][Concurrent =>
            \A c \in Calls :
                /\ (pc[c] = "idle" /\ pc'[c] = "waiting") =>
                      /\ mutable.locked /\ mutable'.locked
                      /\ mutable'.locks = Append(mutable.locks, c)
                /\ (pc[c] = "idle" /\ pc'[c] = "sleeping") =>
                      /\ ~mutable.locked /\ mutable'.locked
                      /\ mutable.locks = <<>> /\ mutable'.locks = <<>>
                /\ (pc[c] = "idle" /\ pc'[c] = "done") =>
                      /\ ~mutable.locked /\ ~mutable'.locked
                      /\ mutable.locks = <<>> /\ mutable'.locks = <<>>
                /\ (pc[c] = "resumed" /\ pc'[c] = "sleeping") =>
                      /\ mutable'.locked
                      /\ mutable'.locks = mutable.locks
                /\ (pc[c] \in {"sleeping", "resumed"} /\ pc'[c] = "done") =>
                      IF mutable.locks = <<>>
                      THEN ~mutable'.locked /\ mutable'.locks = <<>>
                      ELSE /\ mutable'.locked
                           /\ mutable'.locks = Tail(mutable.locks)
                           /\ pc'[Head(mutable.locks)] = "resumed"
                           /\ \A d \in Calls \ {c, Head(mutable.locks)} : pc'[d] = pc[d]]_vars

LockStateMachineWitness ==
    /\ Concurrent
    /\ mutable.locked
    /\ Len(mutable.locks) >= 1
    /\ \E c \in Calls : pc[c] = "resumed"
    /\ \E c \in Calls : pc[c] = "done"

(* C17: in concurrent mode, when resumed callers are run and the timer of the
   forced delay fires, every generate() call that was invoked eventually
   returns a snowflake, whatever the other callers do. *)
EveryCallReturns ==
    \A c \in Calls :
        (Concurrent /\ pc[c] # "idle")
            ~> (pc[c] = "done" /\ \E i \in DOMAIN emitted : emitted[i].call = c)

\* a caller that was queued behind a delayed holder has returned its snowflake
\* after a delay of its own, and later callers are still queued
EveryCallReturnsWitness ==
    /\ Concurrent
    /\ Len(emitted) = 3
    /\ emitted[2].slept /\ emitted[3].slept
    /\ pc[4] = "resumed"
    /\ Len(mutable.locks) >= 1

(* C18: in sequential mode the increment goes on counting when the timestamp
   changes, and two calls of one instance that are 2^incrementBits calls
   apart and read the same millisecond return the same snowflake. *)
SequentialWrapDuplicates ==
    Sequential =>
        /\ \A i \in DOMAIN emitted :
              (i + 1) \in DOMAIN emitted =>
                  emitted[i + 1].increment =
                      Modulo(emitted[i].increment + 1, 2 ^ options.incrementBits)
        /\ \A i, j \in DOMAIN emitted :
              (j = i + (2 ^ options.incrementBits)
               /\ emitted[i].timestamp = emitted[j].timestamp)
                  => emitted[i].flake = emitted[j].flake

\* calls 1 and 5 of an instance with two increment bits read the same
\* millisecond, a later one than call 2 did, and return the same snowflake
SequentialDuplicateWitness ==
    /\ Sequential
    /\ options.incrementBits = 2
    /\ Len(emitted) = 5
    /\ emitted[1].timestamp = emitted[5].timestamp
    /\ emitted[2].timestamp # emitted[1].timestamp
    /\ emitted[1].flake = emitted[5].flake

\* some generate() call of the instance has been invoked
AfterFirstGenerate == phase = "ready" /\ \E c \in Calls : pc[c] # "idle"

\* a concurrent-mode call is suspended in the forced delay
InForcedDelay == \E c \in Calls : pc[c] = "sleeping"

\* C19 as stated: the stored increment is within 0 .. 2^incrementBits - 1 in
\* every state after the first generate() call, the forced delay included
\* (on an instance whose ids fit their bit widths, so that the ids play no part)
IncrementAlwaysInRange ==
    (AfterFirstGenerate /\ IdsWithinWidths) =>
        /\ mutable.increment \in 0..LastIncrement
        /\ \A i \in DOMAIN emitted : emitted[i].increment \in 0..LastIncrement

(* C19: after the first generate() call the stored increment is within
   0 .. 2^incrementBits - 1 in every state of both modes in which no call is
   suspended in the forced delay, it is 2^incrementBits while a call is so
   suspended, and every snowflake packs an increment within
   0 .. 2^incrementBits - 1. *)
IncrementInRangeOutsideDelay ==
    AfterFirstGenerate =>
        /\ ~InForcedDelay => mutable.increment \in 0..LastIncrement
        /\ InForcedDelay => mutable.increment = 2 ^ options.incrementBits
        /\ \A i \in DOMAIN emitted : emitted[i].increment \in 0..LastIncrement

IncrementDuringDelayWitness ==
    /\ Concurrent
    /\ options.incrementBits = 2
    /\ InForcedDelay
    /\ mutable.increment = 4
    /\ Len(emitted) = 4
    /\ emitted[4].increment = 3

=============================================================================
